---- MODULE Spec2Model ----
(***************************************************************************)
(* Order matching and settlement engine of frivolousStonks                 *)
(* (src/index.ts).  The state is the database file that every command      *)
(* loads with readData and saves with writeData; one action is one whole   *)
(* command handler run inside the global mutex.                            *)
(***************************************************************************)
EXTENDS Integers, Sequences, FiniteSets, TLC

(***************************************************************************)
(* Program constants                                                       *)
(***************************************************************************)
SYSTEM_ID == "system"
INIT_COIN_COUNT == 1000
IPO_NUM_SHARES == 1000

(***************************************************************************)
(* Bounds of the model                                                     *)
(***************************************************************************)
\* number of commands a run executes
MaxSteps == 3

\* the traders that issue commands, the one listed guild, the command inputs
Traders == {"u1", "u2"}
UserIds == Traders \cup {SYSTEM_ID}
GuildId == "g1"
Guilds == {GuildId}
Volumes == {10, 50}
Prices == {0, 3, 90}
\* true prices a listed guild may have when the database is loaded
TruePrices == {1, 4}
\* the sell-limit orders already resting in a loaded database, oldest
\* first: their volumes (all are owned by u2 and rest at price 3)
Seeds == {<< >>, <<4>>, <<100>>, <<4, 10>>}
\* a loaded database with one sell-limit order of u2 at each of two price
\* levels, each of volume 4: the prices
LevelSeeds == {<<0, 3>>}

\* the guilds the bot may be a member of, their member counts, and the
\* authors of messages
JobGuilds == {"g1", "g2"}
MemberCounts == {2, 5}
Authors == {"a1", "a2"}

(***************************************************************************)
(* JavaScript values stored in a holdings map: a number, a missing key     *)
(* (undefined), NaN (in memory only) and null (what JSON makes of NaN).    *)
(***************************************************************************)
Num(n) == [t |-> "num", n |-> n]
Undefined == [t |-> "undefined", n |-> 0]
NaN == [t |-> "NaN", n |-> 0]
Null == [t |-> "null", n |-> 0]

\* v - x as JavaScript computes it (null coerces to 0, undefined to NaN)
jsSub(v, x) ==
    IF v.t = "num" THEN Num(v.n - x)
    ELSE IF v.t = "null" THEN Num(0 - x)
    ELSE NaN

\* v + x as JavaScript computes it
jsAdd(v, x) ==
    IF v.t = "num" THEN Num(v.n + x)
    ELSE IF v.t = "null" THEN Num(x)
    ELSE NaN

\* v < x as JavaScript computes it (false for NaN and undefined)
jsLess(v, x) ==
    IF v.t = "num" THEN v.n < x
    ELSE IF v.t = "null" THEN 0 < x
    ELSE FALSE

\* if(v) as JavaScript evaluates it
jsTruthy(v) == v.t = "num" /\ v.n # 0

\* JSON.stringify followed by JSON.parse of one holdings value
jsonValue(v) == IF v.t = "NaN" THEN Null ELSE v

(***************************************************************************)
(* Array helpers                                                           *)
(***************************************************************************)
\* Array.prototype.findIndex on the id, 0-based, -1 when absent
findIndex(arr, id) ==
    IF \E i \in 1..Len(arr) : arr[i].id = id
    THEN (CHOOSE i \in 1..Len(arr) :
            arr[i].id = id /\ \A j \in 1..(i - 1) : arr[j].id # id) - 1
    ELSE -1

\* Array.prototype.splice(start) with a single argument: removes every
\* element from start to the end; a negative start counts from the end
splice(arr, start) ==
    LET from == IF start < 0
                THEN (IF Len(arr) + start < 0 THEN 0 ELSE Len(arr) + start)
                ELSE (IF start > Len(arr) THEN Len(arr) ELSE start)
    IN SubSeq(arr, 1, from)

\* Array.prototype.shift: drops the first element, no effect on []
shift(arr) == IF Len(arr) = 0 THEN arr ELSE Tail(arr)

(***************************************************************************)
(* Constructors                                                            *)
(***************************************************************************)
newUser ==
    [coins |-> INIT_COIN_COUNT,
     holdings |-> [g \in Guilds |-> Undefined],
     pendingOrders |-> << >>]

\* moment().format('YYYY-MM-DD HH:mm:ss'): the reading of the wall clock,
\* which no statement of the program compares or parses
getCurrTimestamp == "YYYY-MM-DD HH:mm:ss"

newGuild(guildId, ipoPrice) ==
    [trueDataPoints |-> <<ipoPrice>>,
     truePrice |-> ipoPrice,
     actualPriceHistTimes |-> <<getCurrTimestamp>>,
     actualPriceHist |-> <<ipoPrice>>,
     lim |-> << >>,
     mkt |-> [buy |-> << >>, sell |-> << >>],
     ipo |-> [id |-> 0, dir |-> "sell", type |-> "mkt", userId |-> SYSTEM_ID,
              guildId |-> guildId, volume |-> IPO_NUM_SHARES, price |-> 0]]

\* the account of the exchange: it holds the shares the IPO order offers
systemUser ==
    [coins |-> 0,
     holdings |-> [g \in Guilds |-> Num(IPO_NUM_SHARES)],
     pendingOrders |-> << >>]

(***************************************************************************)
(* processOrder                                                            *)
(***************************************************************************)
\* the typed errors the command handler catches, after which it still saves
TypedErrors == {"NotEnoughCoinsError", "OrderTooLargeError",
                "InvalidOrderIDError", "TradingStoppedError"}

oppDirOf(order) == IF order.dir = "sell" THEN "buy" ELSE "sell"

directionOf(order) == IF order.dir = "sell" THEN -1 ELSE 1

\* a halt check that lets market orders through
tradingStopped_m(d, order) == ~d.trading /\ order.type = "lim"

\* the halt check at the top of processOrder
tradingStopped(d, order) == ~d.trading

\* "User has no holdings in this stock": a missing entry becomes 0
initHoldings(users, order) ==
    IF users[order.userId].holdings[order.guildId] = Undefined
    THEN [users EXCEPT ![order.userId].holdings[order.guildId] = Num(0)]
    ELSE users

\* the loop over the user's pending orders, from entry i on
RECURSIVE theoreticalCoins(_, _, _, _)
theoreticalCoins(coins, pending, order, i) ==
    IF i > Len(pending) THEN coins
    ELSE LET pendingOrder == pending[i]
         IN theoreticalCoins(
                IF /\ pendingOrder.guildId = order.guildId
                   /\ pendingOrder.dir = "buy"
                   /\ pendingOrder.type = "lim"
                THEN coins - pendingOrder.price
                ELSE coins,
                pending, order, i + 1)

RECURSIVE theoreticalHoldings(_, _, _, _)
theoreticalHoldings(holdings, pending, order, i) ==
    IF i > Len(pending) THEN holdings
    ELSE LET pendingOrder == pending[i]
         IN theoreticalHoldings(
                IF /\ pendingOrder.guildId = order.guildId
                   /\ pendingOrder.dir = "sell"
                THEN jsSub(holdings, pendingOrder.volume)
                ELSE holdings,
                pending, order, i + 1)

\* "User doesn't have enough coins to buy"
notEnoughCoins(orderUser, order) ==
    /\ order.type = "lim"
    /\ order.dir = "buy"
    /\ theoreticalCoins(orderUser.coins, orderUser.pendingOrders, order, 1)
          < order.price * order.volume

\* a check of the holdings that leaves the pending orders out
orderTooLarge_m(orderUser, order) ==
    /\ order.dir = "sell"
    /\ jsLess(orderUser.holdings[order.guildId], order.volume)

\* "User won't have enough stocks to sell"
orderTooLarge(orderUser, order) ==
    /\ order.dir = "sell"
    /\ jsLess(theoreticalHoldings(orderUser.holdings[order.guildId],
                                  orderUser.pendingOrders, order, 1),
              order.volume)

\* the admission check, skipped for the system account
admission(users, order) ==
    IF order.userId = SYSTEM_ID THEN "ok"
    ELSE IF notEnoughCoins(users[order.userId], order)
         THEN "NotEnoughCoinsError"
    ELSE IF orderTooLarge(users[order.userId], order)
         THEN "OrderTooLargeError"
    ELSE "ok"

\* a queue matched at its newest element
queueHead_m(queue) == queue[Len(queue)]

\* the element a queue is matched at
queueHead(queue) == queue[1]

\* a matching loop that tries the limit queue before the market queue
selectOpp_m(guild, order) ==
    IF order.dir = "buy" /\ order.price >= guild.truePrice THEN "ipo"
    ELSE IF order.price \in DOMAIN guild.lim /\ Len(guild.lim[order.price]) > 0
            /\ queueHead(guild.lim[order.price]).dir = oppDirOf(order)
         THEN "lim"
    ELSE IF Len(guild.mkt[oppDirOf(order)]) > 0 THEN "mkt"
    ELSE "none"

\* the condition of the matching loop: which counter-order is selected.
\* guild.ipo is never null in a database this program writes.
selectOpp(guild, order) ==
    LET marketQueue == guild.mkt[oppDirOf(order)]
    IN IF order.dir = "buy" /\ order.price >= guild.truePrice
       THEN "ipo"
       ELSE IF /\ Len(marketQueue) > 0
               /\ queueHead(marketQueue).dir = oppDirOf(order)
       THEN "mkt"
       ELSE IF /\ order.price \in DOMAIN guild.lim
               /\ Len(guild.lim[order.price]) > 0
               /\ queueHead(guild.lim[order.price]).dir = oppDirOf(order)
       THEN "lim"
       ELSE "none"

\* a counter-order taken from the limit queue with the lowest price
oppOrderOf_m(guild, order, src) ==
    IF src = "ipo" THEN guild.ipo
    ELSE IF src = "mkt" THEN queueHead(guild.mkt[oppDirOf(order)])
    ELSE queueHead(guild.lim[
            CHOOSE p \in DOMAIN guild.lim :
               /\ guild.lim[p] # << >>
               /\ \A q \in DOMAIN guild.lim : guild.lim[q] # << >> => p <= q])

\* the counter-order the loop condition has assigned to oppOrder
oppOrderOf(guild, order, src) ==
    IF src = "ipo" THEN guild.ipo
    ELSE IF src = "mkt" THEN queueHead(guild.mkt[oppDirOf(order)])
    ELSE queueHead(guild.lim[order.price])

fulfillEntireSellOrder(order, oppOrder) == order.volume >= oppOrder.volume

numCoinsTransferred(order, oppOrder) ==
    order.price * (IF fulfillEntireSellOrder(order, oppOrder)
                   THEN oppOrder.volume ELSE order.volume)

\* a transfer that credits the seller with the price of the whole order
transferCoins_m(users, order, oppOrder) ==
    LET n == numCoinsTransferred(order, oppOrder)
        taken == [users EXCEPT ![order.userId].coins = @ - directionOf(order) * n]
    IN [taken EXCEPT ![oppOrder.userId].coins =
            @ + directionOf(order) * order.price * order.volume]

\* "Take coins from the buyer", "Give those coins to the seller"
transferCoins(users, order, oppOrder) ==
    LET n == numCoinsTransferred(order, oppOrder)
        taken == [users EXCEPT ![order.userId].coins = @ - directionOf(order) * n]
    IN [taken EXCEPT ![oppOrder.userId].coins = @ + directionOf(order) * n]

\* "Take stock from the seller", "Remove the entry ...", "Give that stock
\* to the buyer"
transferHoldings(users, order, oppOrder) ==
    LET g == order.guildId
        amount == directionOf(order) * order.volume
        taken == [users EXCEPT ![oppOrder.userId].holdings[g] = jsSub(@, amount)]
        removed == IF jsTruthy(taken[oppOrder.userId].holdings[g])
                   THEN [taken EXCEPT ![oppOrder.userId].holdings[g] = Undefined]
                   ELSE taken
    IN [removed EXCEPT ![order.userId].holdings[g] = jsAdd(@, amount)]

\* a price move that records the true price
changePrice_m(guild, newPrice) ==
    [guild EXCEPT !.actualPriceHist = Append(@, guild.truePrice),
                  !.actualPriceHistTimes = Append(@, getCurrTimestamp)]

changePrice(guild, newPrice) ==
    [guild EXCEPT !.actualPriceHist = Append(@, newPrice),
                  !.actualPriceHistTimes = Append(@, getCurrTimestamp)]

\* "Remove the pending sell order in the user"
removePending(users, oppOrder) ==
    [users EXCEPT ![oppOrder.userId].pendingOrders =
        splice(@, findIndex(@, oppOrder.id))]

\* a partial fill that adds the volume to the counter-order
shrinkOpp_m(guild, order, src) ==
    LET amount == directionOf(order) * order.volume
    IN IF src = "ipo"
       THEN [guild EXCEPT !.ipo.volume = @ + amount]
       ELSE IF src = "mkt"
       THEN [guild EXCEPT !.mkt[oppDirOf(order)][1].volume = @ + amount]
       ELSE [guild EXCEPT !.lim[order.price][1].volume = @ + amount]

\* "Partially fulfill the sell order": the selected counter-order object
\* (the IPO order or the head of a queue) has its volume changed in place
shrinkOpp(guild, order, src) ==
    LET amount == directionOf(order) * order.volume
    IN IF src = "ipo"
       THEN [guild EXCEPT !.ipo.volume = @ - amount]
       ELSE IF src = "mkt"
       THEN [guild EXCEPT !.mkt[oppDirOf(order)][1].volume = @ - amount]
       ELSE [guild EXCEPT !.lim[order.price][1].volume = @ - amount]

Fill(src, order, oppOrder) ==
    [src |-> src, id |-> oppOrder.id, userId |-> oppOrder.userId,
     volume |-> IF fulfillEntireSellOrder(order, oppOrder)
                THEN oppOrder.volume ELSE order.volume,
     price |-> order.price,
     entire |-> fulfillEntireSellOrder(order, oppOrder)]

\* executeOrderPrice works on s = [users, guild, order, fills, ret]; ret is
\* "true" / "false" as the code returns them, "TypeError" when
\* thisPriceQueue.shift() is called on undefined (after the transfers, the
\* change of the volume and the splice, which stay in memory), and "Hang"
\* when the loop never exits.
RECURSIVE executeOrderPrice(_)

\* the transfers and the price record of one iteration
afterTransfer(s, src, oppOrder) ==
    [users |-> transferHoldings(transferCoins(s.users, s.order, oppOrder),
                                s.order, oppOrder),
     guild |-> changePrice(s.guild, s.order.price),
     order |-> s.order,
     fills |-> Append(s.fills, Fill(src, s.order, oppOrder)),
     ret |-> "false"]

\* "If the entire sell order can be fulfilled": the order's volume is
\* changed, the counter-order leaves its owner's pending orders and
\* thisPriceQueue is shifted
entireFilled(t, oppOrder, volume1, ret) ==
    [users |-> removePending(t.users, oppOrder),
     guild |-> [t.guild EXCEPT !.lim[t.order.price] = shift(@)],
     order |-> [t.order EXCEPT !.volume = volume1],
     fills |-> t.fills,
     ret |-> ret]

\* The loop cannot exit once it has fully filled a counter-order that stays
\* selected (the IPO order and the head of the market queue are never
\* removed) without the order's volume getting smaller: every later
\* iteration then takes the same branch.
entireFill(s, t, src, oppOrder, volume1) ==
    IF s.order.price \notin DOMAIN t.guild.lim
    THEN [t EXCEPT !.users = removePending(t.users, oppOrder),
                   !.order.volume = volume1,
                   !.ret = "TypeError"]
    ELSE IF volume1 = 0
    THEN entireFilled(t, oppOrder, volume1, "true")
    ELSE IF src # "lim" /\ volume1 >= s.order.volume
    THEN [s EXCEPT !.ret = "Hang"]
    ELSE executeOrderPrice(entireFilled(t, oppOrder, volume1, "false"))

\* "Partially fulfill the sell order" and return true
partialFill(t, src) ==
    [t EXCEPT !.guild = shrinkOpp(t.guild, t.order, src), !.ret = "true"]

\* the body of the while loop for the selected counter-order
iteration(s, src, oppOrder) ==
    IF fulfillEntireSellOrder(s.order, oppOrder)
    THEN entireFill(s, afterTransfer(s, src, oppOrder), src, oppOrder,
                    s.order.volume - directionOf(s.order) * oppOrder.volume)
    ELSE partialFill(afterTransfer(s, src, oppOrder), src)

whileLoop(s, src) ==
    IF src = "none" THEN [s EXCEPT !.ret = "false"]
    ELSE iteration(s, src, oppOrderOf(s.guild, s.order, src))

executeOrderPrice(s) == whileLoop(s, selectOpp(s.guild, s.order))

\* Object.keys(guild.lim).map(parseInt).sort((a, b) => -1 * direction * (a - b)):
\* the comparator puts the larger price first when direction is 1
RECURSIVE sortedPrices(_, _)
sortedPrices(keys, order) ==
    IF keys = {} THEN << >>
    ELSE LET first == IF directionOf(order) = 1
                      THEN CHOOSE k \in keys : \A j \in keys : j <= k
                      ELSE CHOOSE k \in keys : \A j \in keys : k <= j
         IN <<first>> \o sortedPrices(keys \ {first}, order)

\* the for loop of case 'mkt' from position i on
RECURSIVE sweep(_, _, _)

sweepNext(r, prices, i) ==
    IF r.ret = "false" THEN sweep(r, prices, i + 1) ELSE r

sweep(s, prices, i) ==
    IF i > Len(prices) THEN [s EXCEPT !.ret = "false"]
    ELSE sweepNext(executeOrderPrice([s EXCEPT !.order.price = prices[i]]),
                   prices, i)

\* guild.lim[price] = []
resetQueue(guild, price) ==
    [guild EXCEPT !.lim =
        [p \in (DOMAIN guild.lim) \cup {price} |->
            IF p = price THEN << >> ELSE guild.lim[p]]]

\* the statement after the for loop: guild.lim[order.price] = []
afterSweep(r) ==
    IF r.ret = "false"
    THEN [r EXCEPT !.guild = resetQueue(r.guild, r.order.price)]
    ELSE r

\* the switch on order.type
matchOrder(s) ==
    IF s.order.type = "lim" THEN executeOrderPrice(s)
    ELSE afterSweep(sweep(s, sortedPrices(DOMAIN s.guild.lim, s.order), 1))

\* an insertion that puts the order at the end of every limit queue
enqueue_m(s, newId) ==
    [s EXCEPT
        !.order.id = newId,
        !.guild.lim = [p \in DOMAIN s.guild.lim |->
                          Append(s.guild.lim[p], [s.order EXCEPT !.id = newId])],
        !.users[s.order.userId].pendingOrders =
            Append(@, [s.order EXCEPT !.id = newId]),
        !.ret = "resting"]

\* "we need to place an order in the queue": ret is "TypeError" when the
\* limit queue of the price does not exist
enqueue(s, newId) ==
    IF s.order.type = "lim" /\ s.order.price \notin DOMAIN s.guild.lim
    THEN [s EXCEPT !.ret = "TypeError"]
    ELSE [s EXCEPT
            !.order.id = newId,
            !.guild = IF s.order.type = "lim"
                      THEN [s.guild EXCEPT !.lim[s.order.price] =
                               Append(@, [s.order EXCEPT !.id = newId])]
                      ELSE [s.guild EXCEPT !.mkt[s.order.dir] =
                               Append(@, [s.order EXCEPT !.id = newId])],
            !.users[s.order.userId].pendingOrders =
                Append(@, [s.order EXCEPT !.id = newId]),
            !.ret = "resting"]

\* the end of processOrder: the order is queued unless matching returned
queueRest(m, newId) == IF m.ret = "false" THEN enqueue(m, newId) ELSE m

\* what a processOrder call leaves: result is "filled" (returned null),
\* "resting" (returned the order), the name of the error thrown, or "Hang"
outcome(d, e) ==
    [result |-> IF e.ret = "true" THEN "filled" ELSE e.ret,
     data |-> [d EXCEPT !.users = e.users, !.guilds[e.order.guildId] = e.guild],
     order |-> e.order,
     fills |-> e.fills]

\* a processOrder call that threw or returned before matching
early(d, order, result) ==
    [result |-> result, data |-> d, order |-> order, fills |-> << >>]

\* processOrder from the admission check on; users0 has the holdings entry
admitted(d, users0, order, newId) ==
    IF admission(users0, order) # "ok"
    THEN early([d EXCEPT !.users = users0], order, admission(users0, order))
    ELSE outcome(d, queueRest(
            matchOrder([users |-> users0, guild |-> d.guilds[order.guildId],
                        order |-> order, fills |-> << >>, ret |-> "false"]),
            newId))

\* processOrder on the in-memory data d; newId is the value of
\* crypto.randomBytes(8)
processOrder(d, order, newId) ==
    IF tradingStopped(d, order) THEN early(d, order, "TradingStoppedError")
    ELSE IF order.volume <= 0 THEN early(d, order, "filled")
    ELSE admitted(d, initHoldings(d.users, order), order, newId)

(***************************************************************************)
(* cancelOrder                                                             *)
(***************************************************************************)
\* a cancelOrder without the check of the index
cancelOrder_m(d, order) ==
    LET pendingOrders == d.users[order.userId].pendingOrders
        orderIndex == findIndex(pendingOrders, order.id)
        guild == d.guilds[order.guildId]
    IN IF order.type = "lim" /\ order.price \notin DOMAIN guild.lim
       THEN [result |-> "TypeError", data |-> d]
       ELSE
       LET users1 == [d.users EXCEPT ![order.userId].pendingOrders =
                         splice(@, orderIndex)]
           guild1 == IF order.type = "lim"
                     THEN [guild EXCEPT !.lim[order.price] =
                              splice(@, findIndex(@, order.id))]
                     ELSE [guild EXCEPT !.mkt[order.dir] =
                              splice(@, findIndex(@, order.id))]
       IN [result |-> "canceled",
           data |-> [d EXCEPT !.users = users1,
                              !.guilds[order.guildId] = guild1]]

cancelOrder(d, order) ==
    LET pendingOrders == d.users[order.userId].pendingOrders
        orderIndex == findIndex(pendingOrders, order.id)
        guild == d.guilds[order.guildId]
    IN IF orderIndex = -1
       THEN [result |-> "InvalidOrderIDError", data |-> d]
       ELSE IF order.type = "lim" /\ order.price \notin DOMAIN guild.lim
       THEN [result |-> "TypeError", data |-> d]
       ELSE
       LET users1 == [d.users EXCEPT ![order.userId].pendingOrders =
                         splice(@, orderIndex)]
           guild1 == IF order.type = "lim"
                     THEN [guild EXCEPT !.lim[order.price] =
                              splice(@, findIndex(@, order.id))]
                     ELSE [guild EXCEPT !.mkt[order.dir] =
                              splice(@, findIndex(@, order.id))]
       IN [result |-> "canceled",
           data |-> [d EXCEPT !.users = users1,
                              !.guilds[order.guildId] = guild1]]

(***************************************************************************)
(* The database file                                                       *)
(***************************************************************************)
\* JSON.stringify(data): a NaN holding is written as null
writeData(d) ==
    [d EXCEPT !.users =
        [u \in DOMAIN d.users |->
            [d.users[u] EXCEPT !.holdings =
                [g \in DOMAIN @ |-> jsonValue(@[g])]]]]

\* JSON.parse of the file
readData(file) == file

(***************************************************************************)
(* Tickers                                                                 *)
(***************************************************************************)
MAX_TICKER_LENGTH == 8

\* the guilds that take part in setticker commands
TickerGuilds == {"g1", "g2", "g3"}

\* a string is the sequence of its characters; the id of a guild is a
\* snowflake of 17 digits
guildIdString(g) ==
    [i \in 1..17 |-> IF i < 17 THEN "1"
                     ELSE IF g = "g1" THEN "1"
                     ELSE IF g = "g2" THEN "2" ELSE "3"]

\* the values of the 'ticker' option of the setticker command
TickerOptions ==
    {<<"a">>, <<"A">>, <<"b">>, <<"a", "1">>, <<"a", "-">>,
     <<"a", "a", "a", "a", "a", "a", "a", "a", "a">>}

\* String.prototype.toUpperCase, on the characters the options use
upperChar(c) == IF c = "a" THEN "A" ELSE IF c = "b" THEN "B" ELSE c

toUpperCase(str) == [i \in 1..Len(str) |-> upperChar(str[i])]

\* /^[A-Za-z0-9]*$/
alphanumeric(str) ==
    \A i \in 1..Len(str) : str[i] \in {"a", "b", "A", "B", "1", "2", "3"}

\* data.tickers and the guilds' ticker fields before any guild is listed
newRegistry ==
    [tickers |-> << >>,
     guilds |-> << >>,
     last |-> [guildId |-> "none", option |-> << >>, previous |-> << >>,
               reply |-> "none"]]

\* newGuild: the ticker of a newly listed guild is its id; data.tickers
\* gets no entry
listGuild(r, guildId) ==
    [r EXCEPT !.guilds =
        [g \in DOMAIN r.guilds \cup {guildId} |->
            IF g = guildId THEN guildIdString(guildId) ELSE r.guilds[g]]]

changeTicker(r, guildId, ticker) ==
    [r EXCEPT
        !.tickers =
            [t \in (DOMAIN r.tickers \ {r.guilds[guildId]}) \cup {ticker} |->
                IF t = ticker THEN guildId ELSE r.tickers[t]],
        !.guilds[guildId] = toUpperCase(ticker)]

\* the 'ticker' option as the handler reads it, without the conversion
optionTicker_m(option) == option

\* the 'ticker' option as the handler reads it
optionTicker(option) == toUpperCase(option)

\* a handler without the test of the length
settickerReply_m(r, guildId, ticker) ==
    IF guildId \notin DOMAIN r.guilds THEN "not listed"
    ELSE IF ticker \in DOMAIN r.tickers THEN "already used"
    ELSE IF ~alphanumeric(ticker) THEN "not alphanumeric"
    ELSE "changed"

\* the reply of the setticker handler after the permission check
settickerReply(r, guildId, ticker) ==
    IF guildId \notin DOMAIN r.guilds THEN "not listed"
    ELSE IF ticker \in DOMAIN r.tickers THEN "already used"
    ELSE IF Len(ticker) > MAX_TICKER_LENGTH THEN "too long"
    ELSE IF ~alphanumeric(ticker) THEN "not alphanumeric"
    ELSE "changed"

\* what the model keeps of a setticker command: the guild, the option, the
\* guild's ticker when the command arrived, the reply
command(r, guildId, option, reply) ==
    [guildId |-> guildId, option |-> option,
     previous |-> IF guildId \in DOMAIN r.guilds THEN r.guilds[guildId]
                  ELSE << >>,
     reply |-> reply]

\* the setticker handler on the data it has read
setticker(r, guildId, hasPermission, option) ==
    IF ~hasPermission
    THEN [r EXCEPT !.last = command(r, guildId, option, "no permission")]
    ELSE IF settickerReply(r, guildId, optionTicker(option)) # "changed"
    THEN [r EXCEPT !.last =
             command(r, guildId, option,
                     settickerReply(r, guildId, optionTicker(option)))]
    ELSE [changeTicker(r, guildId, optionTicker(option)) EXCEPT !.last =
             command(r, guildId, option, "changed")]

(***************************************************************************)
(* OrderBookQueue (src/unnamed/part_000): orders maps the id of an entry   *)
(* to the entry, queue is the array of the ids, newest first.  A method is *)
(* an operator from the object to the object it leaves and the value it    *)
(* returns.                                                                *)
(***************************************************************************)
\* what enter is given
QueueEntries == [userId : Traders, volume : Volumes]

NoEntry == [userId |-> "null", volume |-> 0]

newOrderBookQueue == [orders |-> << >>, queue |-> << >>]

\* entryId is the value of crypto.randomBytes(8).toString('hex')
enter(q, entry, entryId) ==
    [q |-> [orders |-> [id \in DOMAIN q.orders \cup {entryId} |->
                          IF id = entryId THEN entry ELSE q.orders[id]],
            queue |-> <<entryId>> \o q.queue],
     ret |-> entryId]

\* a peekNext that reads the front of the array
peekNext_m(q) ==
    IF Len(q.queue) = 0 THEN NoEntry ELSE q.orders[q.queue[1]]

\* NoEntry stands for null
peekNext(q) ==
    IF Len(q.queue) = 0 THEN NoEntry ELSE q.orders[q.queue[Len(q.queue)]]

\* delete this.orders[id]
deleteEntry(orders, entryId) ==
    [id \in DOMAIN orders \ {entryId} |-> orders[id]]

dequeueNext(q) ==
    IF Len(q.queue) = 0 THEN [q |-> q, ret |-> FALSE]
    ELSE [q |-> [orders |-> deleteEntry(q.orders, q.queue[Len(q.queue)]),
                 queue |-> SubSeq(q.queue, 1, Len(q.queue) - 1)],
          ret |-> TRUE]

\* this.queue.findIndex(entry => entry === entryId), 0-based
indexOfEntry(queue, entryId) ==
    IF \E i \in 1..Len(queue) : queue[i] = entryId
    THEN (CHOOSE i \in 1..Len(queue) :
            queue[i] = entryId /\ \A j \in 1..(i - 1) : queue[j] # entryId) - 1
    ELSE -1

cancel(q, entryId) ==
    IF indexOfEntry(q.queue, entryId) = -1 THEN [q |-> q, ret |-> FALSE]
    ELSE [q |-> [orders |-> deleteEntry(q.orders, entryId),
                 queue |-> splice(q.queue, indexOfEntry(q.queue, entryId))],
          ret |-> TRUE]

(***************************************************************************)
(* The global mutex                                                        *)
(***************************************************************************)
\* the tasks that call globalMutex.runExclusive: the periodic job, the
\* handlers of three commands in flight, the messageCreate handler
Handlers == {"c1", "c2", "c3"}
Tasks == {"job", "msg"} \cup Handlers

(***************************************************************************)
(* State                                                                   *)
(***************************************************************************)
\* database: the content of the database file (DATABASE_PATH)
\* nextId:   the number of order ids drawn so far, plus one
\* last:     the last command run and what it returned
\* steps:    the number of commands run so far
\* pc:       where each task that uses the global mutex stands
\* locked:   whether the global mutex is held
\* waiters:  the tasks queued on the global mutex, oldest first
\* registry: data.tickers and the ticker field of the listed guilds, with
\*           the last setticker command and its reply
\* stocks:   the price data of data.guilds as the periodic job keeps it
\* activityData: the message counters of the process, per guild
\* received: the authors of the non-bot messages received for each guild
\*           since the last run of the job, oldest first
\* jobLast:  the number of job runs, and the guilds of client.guilds.cache
\*           with their member counts at the last run
\* orderBookQueue: an OrderBookQueue object of part_000
\* calls:    the entries given to enter, with the ids enter returned,
\*           oldest first; the number of dequeueNext calls that returned
\*           true; the last call on the object and what it returned
VARIABLES database, nextId, last, steps, pc, locked, waiters, registry,
          stocks, activityData, received, jobLast, orderBookQueue, calls
vars == <<database, nextId, last, steps, pc, locked, waiters, registry,
          stocks, activityData, received, jobLast, orderBookQueue, calls>>

\* the parts of the state a command on the order book leaves alone
engineVars == <<database, nextId, last, steps>>
mutexVars == <<pc, locked, waiters>>
jobVars == <<stocks, activityData, received, jobLast>>
queueVars == <<orderBookQueue, calls>>

\* no call yet on the OrderBookQueue
noCalls == [entered |-> << >>, dequeued |-> 0, op |-> "none", arg |-> 0,
            ret |-> NoEntry, done |-> FALSE]

NoOrder == [id |-> 0, dir |-> "buy", type |-> "lim", userId |-> SYSTEM_ID,
            guildId |-> GuildId, volume |-> 0, price |-> 0]

\* the ids of the orders resting in a loaded database
SeedId(i) == 100 + i
OrderIds == (1..MaxSteps) \cup {SeedId(1), SeedId(2)}

seedOrders(seed) ==
    [i \in 1..Len(seed) |->
        [id |-> SeedId(i), dir |-> "sell", type |-> "lim", userId |-> "u2",
         guildId |-> GuildId, volume |-> seed[i], price |-> 3]]

RECURSIVE sumVolumes(_, _)
sumVolumes(orders, i) ==
    IF i > Len(orders) THEN 0 ELSE orders[i].volume + sumVolumes(orders, i + 1)

\* a database as the program saves it: the guild as newGuild lists it, the
\* traders as newUser creates them; in a seeded database u2 owns the shares
\* of the sell-limit orders it has resting
loadedData(seed, truePrice) ==
    LET orders == seedOrders(seed)
        guild == newGuild(GuildId, truePrice)
    IN [users |->
          [u \in UserIds |->
             IF u = SYSTEM_ID THEN systemUser
             ELSE IF u = "u2" /\ Len(seed) > 0
             THEN [newUser EXCEPT
                     !.holdings[GuildId] = Num(sumVolumes(orders, 1)),
                     !.pendingOrders = orders]
             ELSE newUser],
        guilds |->
          [g \in Guilds |->
             IF Len(seed) > 0
             THEN [guild EXCEPT !.lim = [p \in {3} |-> orders]]
             ELSE guild],
        trading |-> TRUE,
        admins |-> {"u1"}]

\* the orders of a database with one resting order at each price level
levelOrders(levels) ==
    [i \in 1..Len(levels) |->
        [id |-> SeedId(i), dir |-> "sell", type |-> "lim", userId |-> "u2",
         guildId |-> GuildId, volume |-> 4, price |-> levels[i]]]

\* a saved database whose book has a limit queue at each price level
leveledData(levels, truePrice) ==
    [loadedData(<< >>, truePrice) EXCEPT
        !.users["u2"].holdings[GuildId] =
            Num(sumVolumes(levelOrders(levels), 1)),
        !.users["u2"].pendingOrders = levelOrders(levels),
        !.guilds[GuildId].lim =
            [p \in {levels[i] : i \in 1..Len(levels)} |->
                SelectSeq(levelOrders(levels), LAMBDA o : o.price = p)]]

Init ==
    /\ \/ \E seed \in Seeds, truePrice \in TruePrices :
             database = loadedData(seed, truePrice)
       \/ \E levels \in LevelSeeds, truePrice \in TruePrices :
             database = leveledData(levels, truePrice)
    /\ nextId = 1
    /\ steps = 0
    /\ last = [op |-> "init", userId |-> SYSTEM_ID, order |-> NoOrder,
               result |-> "none", fills |-> << >>, ret |-> NoOrder]
    /\ pc = [t \in Tasks |-> "idle"]
    /\ locked = FALSE
    /\ waiters = << >>
    /\ registry = newRegistry
    /\ stocks = << >>
    /\ activityData = << >>
    /\ received = [g \in JobGuilds |-> << >>]
    /\ jobLast = [runs |-> 0, cache |-> << >>]
    /\ orderBookQueue = newOrderBookQueue
    /\ calls = noCalls

\* the process answers commands unless a command never returned
alive == last.result # "Hang" /\ steps < MaxSteps

\* a handler that saves the database whatever the command did
saved_m(result) == TRUE

\* the handler saves the database unless an untyped error escaped
saved(result) == result \in {"filled", "resting", "canceled"} \cup TypedErrors

(***************************************************************************)
(* Commands                                                                *)
(***************************************************************************)
\* the order a handler hands to processOrder
newOrder(u, dir, type, volume, price) ==
    [id |-> 0, dir |-> dir, type |-> type, userId |-> u,
     guildId |-> GuildId, volume |-> volume, price |-> price]

\* processOrder run by a handler for the given owner
RunOrder(op, u, dir, type, volume, price) ==
    \E r \in {processOrder(readData(database),
                           newOrder(u, dir, type, volume, price), nextId)} :
       /\ alive
       /\ database' = IF saved(r.result) THEN writeData(r.data) ELSE database
       /\ nextId' = IF r.result = "resting" THEN nextId + 1 ELSE nextId
       /\ steps' = steps + 1
       /\ last' = [op |-> op, userId |-> u,
                   order |-> newOrder(u, dir, type, volume, price),
                   result |-> r.result, fills |-> r.fills,
                   ret |-> IF r.result = "resting" THEN r.order ELSE NoOrder]
       /\ UNCHANGED <<mutexVars, registry, jobVars, queueVars>>

\* the 'buy' / 'sell' command with a price: a limit order
SubmitLimit(u, dir, volume, price) ==
    RunOrder("order", u, dir, "lim", volume, price)

\* the 'buy' / 'sell' command without a price: a market order
SubmitMarket(u, dir, volume) ==
    RunOrder("order", u, dir, "mkt", volume, 0)

\* the 'cancel' command
cancelCommand(d, u, orderId) ==
    IF findIndex(d.users[u].pendingOrders, orderId) = -1
    THEN [result |-> "InvalidOrderIDError", data |-> d]
    ELSE cancelOrder(d, d.users[u].pendingOrders[
                            findIndex(d.users[u].pendingOrders, orderId) + 1])

Cancel(u, orderId) ==
    \E r \in {cancelCommand(readData(database), u, orderId)} :
       /\ alive
       /\ database' = IF saved(r.result) THEN writeData(r.data) ELSE database
       /\ nextId' = nextId
       /\ steps' = steps + 1
       /\ last' = [op |-> "cancel", userId |-> u,
                   order |-> [NoOrder EXCEPT !.id = orderId, !.userId = u],
                   result |-> r.result, fills |-> << >>, ret |-> NoOrder]
       /\ UNCHANGED <<mutexVars, registry, jobVars, queueVars>>

\* the commands without the test of data.admins
SetTrading_m(u, op, value) ==
    LET d == readData(database)
    IN /\ alive
       /\ database' = writeData([d EXCEPT !.trading = value])
       /\ nextId' = nextId
       /\ steps' = steps + 1
       /\ last' = [op |-> op, userId |-> u, order |-> NoOrder,
                   result |-> "done", fills |-> << >>, ret |-> NoOrder]
       /\ UNCHANGED <<mutexVars, registry, jobVars, queueVars>>

\* the 'stoptrading' / 'conttrading' commands
SetTrading(u, op, value) ==
    LET d == readData(database)
    IN /\ alive
       /\ database' = writeData(IF u \in d.admins
                                THEN [d EXCEPT !.trading = value] ELSE d)
       /\ nextId' = nextId
       /\ steps' = steps + 1
       /\ last' = [op |-> op, userId |-> u, order |-> NoOrder,
                   result |-> IF u \in d.admins THEN "done" ELSE "denied",
                   fills |-> << >>, ret |-> NoOrder]
       /\ UNCHANGED <<mutexVars, registry, jobVars, queueVars>>

StopTrading(u) == SetTrading(u, "stoptrading", FALSE)

ContTrading(u) == SetTrading(u, "conttrading", TRUE)

\* a loaded database whose IPO order has 10 shares left: u2 has 4 shares
\* resting at price 3, u1 holds the other shares the IPO order has sold
ipoData ==
    [loadedData(<<4>>, 1) EXCEPT
        !.guilds[GuildId].ipo.volume = 10,
        !.users[SYSTEM_ID].holdings[GuildId] = Num(10),
        !.users["u1"].holdings[GuildId] = Num(IPO_NUM_SHARES - 10 - 4)]

InitIpo ==
    /\ database = ipoData
    /\ nextId = 1
    /\ steps = 0
    /\ last = [op |-> "init", userId |-> SYSTEM_ID, order |-> NoOrder,
               result |-> "none", fills |-> << >>, ret |-> NoOrder]
    /\ pc = [t \in Tasks |-> "idle"]
    /\ locked = FALSE
    /\ waiters = << >>
    /\ registry = newRegistry
    /\ stocks = << >>
    /\ activityData = << >>
    /\ received = [g \in JobGuilds |-> << >>]
    /\ jobLast = [runs |-> 0, cache |-> << >>]
    /\ orderBookQueue = newOrderBookQueue
    /\ calls = noCalls

\* processOrder called for an order of the system account (IPO seeding)
SystemOrder(dir, volume, price) ==
    RunOrder("system", SYSTEM_ID, dir, "lim", volume, price)

Next ==
    \/ \E u \in Traders, dir \in {"buy", "sell"}, volume \in Volumes,
          price \in Prices : SubmitLimit(u, dir, volume, price)
    \/ \E u \in Traders, dir \in {"buy", "sell"}, volume \in Volumes :
          SubmitMarket(u, dir, volume)
    \/ \E u \in Traders, orderId \in OrderIds : Cancel(u, orderId)
    \/ \E u \in Traders : StopTrading(u)
    \/ \E u \in Traders : ContTrading(u)

Spec == Init /\ [][Next]_vars

\* the commands on a database whose IPO order is nearly sold
SpecIpo == InitIpo /\ [][Next]_vars

\* the commands together with orders of the system account
NextSystem ==
    \/ Next
    \/ \E dir \in {"buy", "sell"}, volume \in Volumes, price \in Prices :
          SystemOrder(dir, volume, price)

SpecSystem == Init /\ [][NextSystem]_vars

(***************************************************************************)
(* Tasks on the global mutex                                               *)
(***************************************************************************)
\* a mutex that lets every caller in
granted_m(isLocked) == TRUE

\* Mutex.acquire resolves at once only when the mutex is free
granted(isLocked) == ~isLocked

\* globalMutex.runExclusive called by a task: the task takes the mutex, or
\* queues behind the tasks already waiting
runExclusive(t) ==
    /\ pc[t] = "idle"
    /\ IF granted(locked)
       THEN /\ locked' = TRUE
            /\ pc' = [pc EXCEPT ![t] = "inside"]
            /\ waiters' = waiters
       ELSE /\ locked' = locked
            /\ pc' = [pc EXCEPT ![t] = "waiting"]
            /\ waiters' = Append(waiters, t)
    /\ UNCHANGED <<engineVars, registry, jobVars, queueVars>>

\* the callback of runExclusive has settled: the mutex goes to the oldest
\* waiter, or is free
release(t) ==
    /\ IF waiters = << >>
       THEN /\ locked' = FALSE
            /\ pc' = [pc EXCEPT ![t] = "idle"]
            /\ waiters' = waiters
       ELSE /\ locked' = TRUE
            /\ pc' = [pc EXCEPT ![t] = "idle", ![Head(waiters)] = "inside"]
            /\ waiters' = Tail(waiters)
    /\ UNCHANGED <<engineVars, registry, jobVars, queueVars>>

\* the scheduler fires the periodic job
JobTick == runExclusive("job")

\* the body of the job, readData to writeData, has no await
JobBody == pc["job"] = "inside" /\ release("job")

\* a command arrives
Interaction(c) == runExclusive(c)

\* the handler has read the data and run the command, and awaits
\* interaction.reply inside the callback
HandlerReply(c) ==
    /\ pc[c] = "inside"
    /\ pc' = [pc EXCEPT ![c] = "reply"]
    /\ UNCHANGED <<locked, waiters, engineVars, registry, jobVars, queueVars>>

\* the reply has resolved: writeData, and the callback settles
HandlerEnd(c) == pc[c] = "reply" /\ release(c)

\* a message arrives
Message == runExclusive("msg")

\* the body of the messageCreate callback has no await
MessageBody == pc["msg"] = "inside" /\ release("msg")

NextMutex ==
    \/ JobTick
    \/ JobBody
    \/ \E c \in Handlers : Interaction(c)
    \/ \E c \in Handlers : HandlerReply(c)
    \/ \E c \in Handlers : HandlerEnd(c)
    \/ Message
    \/ MessageBody

SpecMutex == Init /\ [][NextMutex]_vars

(***************************************************************************)
(* setticker commands                                                      *)
(***************************************************************************)
\* the periodic job lists a guild it has no data for
ListGuild(g) ==
    /\ g \notin DOMAIN registry.guilds
    /\ registry' = listGuild(registry, g)
    /\ UNCHANGED <<engineVars, mutexVars, jobVars, queueVars>>

\* the 'setticker' command in a guild
SetTicker(g, hasPermission, option) ==
    /\ registry' = setticker(registry, g, hasPermission, option)
    /\ UNCHANGED <<engineVars, mutexVars, jobVars, queueVars>>

NextTicker ==
    \/ \E g \in TickerGuilds : ListGuild(g)
    \/ \E g \in TickerGuilds, hasPermission \in BOOLEAN,
          option \in TickerOptions : SetTicker(g, hasPermission, option)

SpecTicker == Init /\ [][NextTicker]_vars

(***************************************************************************)
(* The periodic job and the message counters.  The prices the job computes *)
(* are real numbers (a logarithm, a mean, a weighted mean); the model      *)
(* keeps each as the term that denotes it.                                 *)
(***************************************************************************)
TRUE_PRICE_WEIGHT == "0.1"
MAX_DATA_POINTS == 24 * 60

\* 1 + 10 * Math.log(memberCount) * (numMessages / numAuthors)
trueStockPriceFormula(memberCount, numMessages, numAuthors) ==
    [memberCount |-> memberCount, numMessages |-> numMessages,
     numAuthors |-> numAuthors]

\* newData.reduce((a, b) => a + b) / newData.length
meanOf(newData) == [mean |-> newData]

\* (actualPriceHist.at(-1) + truePrice * TRUE_PRICE_WEIGHT)
\*     / (TRUE_PRICE_WEIGHT + 1)
pulledPrice(guild) ==
    [actual |-> guild.actualPriceHist[Len(guild.actualPriceHist)],
     truePrice |-> guild.truePrice, weight |-> TRUE_PRICE_WEIGHT]

\* the messageCreate callback: the counters object of a guild that has
\* none is created in a local variable only
messageCreate(activity, g, author) ==
    LET thisGuildData ==
            IF g \in DOMAIN activity THEN activity[g]
            ELSE [authors |-> {}, msgCount |-> 0]
        counted == [authors |-> thisGuildData.authors \cup {author},
                    msgCount |-> thisGuildData.msgCount + 1]
    IN IF g \in DOMAIN activity
       THEN [activity EXCEPT ![g] = counted]
       ELSE activity

\* the counts the job reads for a guild
numMessages(activity, g) ==
    IF g \in DOMAIN activity THEN activity[g].msgCount ELSE 0

numAuthors(activity, g) ==
    IF g \in DOMAIN activity THEN Cardinality(activity[g].authors) ELSE 1

\* a window that is never cut
dropOldest_m(newData) == newData

\* if(newData.length > MAX_DATA_POINTS) newData.pop()
dropOldest(newData) ==
    IF Len(newData) > MAX_DATA_POINTS
    THEN SubSeq(newData, 1, Len(newData) - 1)
    ELSE newData

\* a branch that recomputes the true price and leaves the actual price
adjustGuild_m(guild, sample) ==
    [guild EXCEPT !.trueDataPoints = dropOldest(<<sample>> \o @),
                  !.truePrice =
                      meanOf(dropOldest(<<sample>> \o guild.trueDataPoints))]

\* the branch of the job for a guild that already has data
adjustGuild(guild, sample) ==
    LET newData == dropOldest(<<sample>> \o guild.trueDataPoints)
        priced == [guild EXCEPT !.trueDataPoints = newData,
                                !.truePrice = meanOf(newData)]
    IN changePrice(priced, pulledPrice(priced))

\* the forEach of the job over client.guilds.cache
jobGuilds(listed, activity, cache) ==
    [g \in DOMAIN listed \cup DOMAIN cache |->
        IF g \notin DOMAIN cache THEN listed[g]
        ELSE IF g \in DOMAIN listed
        THEN adjustGuild(listed[g],
                 trueStockPriceFormula(cache[g], numMessages(activity, g),
                                       numAuthors(activity, g)))
        ELSE newGuild(g,
                 trueStockPriceFormula(cache[g], numMessages(activity, g),
                                       numAuthors(activity, g)))]

\* the callback of the scheduled job
Job(cache) ==
    /\ alive
    /\ stocks' = jobGuilds(stocks, activityData, cache)
    /\ activityData' = << >>
    /\ received' = [g \in JobGuilds |-> << >>]
    /\ jobLast' = [runs |-> jobLast.runs + 1, cache |-> cache]
    /\ steps' = steps + 1
    /\ UNCHANGED <<database, nextId, last, mutexVars, registry, queueVars>>

\* a message of a bot arrives: the handler returns at once
BotMessage(g, author) ==
    /\ alive
    /\ steps' = steps + 1
    /\ UNCHANGED <<database, nextId, last, mutexVars, registry, jobVars, queueVars>>

\* a message of a user arrives
UserMessage(g, author) ==
    /\ alive
    /\ activityData' = messageCreate(activityData, g, author)
    /\ received' = [received EXCEPT ![g] = Append(@, author)]
    /\ steps' = steps + 1
    /\ UNCHANGED <<database, nextId, last, mutexVars, registry, stocks,
                   jobLast, queueVars>>

\* an order on a listed guild is filled once at a price
OrderFill(g, price) ==
    /\ alive
    /\ g \in DOMAIN stocks
    /\ stocks' = [stocks EXCEPT ![g] = changePrice(@, price)]
    /\ steps' = steps + 1
    /\ UNCHANGED <<database, nextId, last, mutexVars, registry,
                   activityData, received, jobLast, queueVars>>

NextJob ==
    \/ \E guilds \in SUBSET JobGuilds :
          \E cache \in [guilds -> MemberCounts] : Job(cache)
    \/ \E g \in JobGuilds, author \in Authors : BotMessage(g, author)
    \/ \E g \in JobGuilds, author \in Authors : UserMessage(g, author)
    \/ \E g \in JobGuilds, price \in Prices : OrderFill(g, price)

SpecJob == Init /\ [][NextJob]_vars

\* the samples of a guild that has been listed for n minutes, newest
\* first: no message was counted, and the guild has gained a member a
\* minute
windowSamples(n) == [i \in 1..n |-> trueStockPriceFormula(n - i + 2, 0, 1)]

\* the price data of g1 after n minutes: its samples, their mean, and one
\* recorded actual price a minute (the numbers they amount to)
windowStocks(n) ==
    [g \in {"g1"} |->
        [newGuild(g, windowSamples(n)[n]) EXCEPT
            !.trueDataPoints = windowSamples(n),
            !.truePrice = meanOf(windowSamples(n)),
            !.actualPriceHist = [i \in 1..n |-> 3],
            !.actualPriceHistTimes = [i \in 1..n |-> getCurrTimestamp]]]

\* the process a minute before g1 has been listed for a day: the window of
\* g1 is one sample short
InitWindow ==
    /\ database = loadedData(<< >>, 1)
    /\ nextId = 1
    /\ steps = 0
    /\ last = [op |-> "init", userId |-> SYSTEM_ID, order |-> NoOrder,
               result |-> "none", fills |-> << >>, ret |-> NoOrder]
    /\ pc = [t \in Tasks |-> "idle"]
    /\ locked = FALSE
    /\ waiters = << >>
    /\ registry = newRegistry
    /\ stocks = windowStocks(MAX_DATA_POINTS - 1)
    /\ activityData = << >>
    /\ received = [g \in JobGuilds |-> << >>]
    /\ jobLast = [runs |-> 0, cache |-> << >>]
    /\ orderBookQueue = newOrderBookQueue
    /\ calls = noCalls

SpecWindow == InitWindow /\ [][NextJob]_vars

(***************************************************************************)
(* Calls on an OrderBookQueue                                              *)
(***************************************************************************)
\* the ids crypto.randomBytes returns: a new one at every call
entryIdOf(n) == n

EntryIds == {entryIdOf(n) : n \in 1..MaxSteps}

Enter(entry) ==
    \E r \in {enter(orderBookQueue, entry, entryIdOf(Len(calls.entered) + 1))} :
       /\ steps < MaxSteps
       /\ orderBookQueue' = r.q
       /\ calls' = [calls EXCEPT
                       !.entered = Append(@, [id |-> r.ret, entry |-> entry]),
                       !.op = "enter", !.arg = r.ret, !.ret = NoEntry,
                       !.done = TRUE]
       /\ steps' = steps + 1
       /\ UNCHANGED <<database, nextId, last, mutexVars, registry, jobVars>>

PeekNext ==
    /\ steps < MaxSteps
    /\ calls' = [calls EXCEPT !.op = "peekNext", !.arg = 0,
                              !.ret = peekNext(orderBookQueue),
                              !.done = TRUE]
    /\ steps' = steps + 1
    /\ UNCHANGED <<database, nextId, last, mutexVars, registry, jobVars,
                   orderBookQueue>>

DequeueNext ==
    \E r \in {dequeueNext(orderBookQueue)} :
       /\ steps < MaxSteps
       /\ orderBookQueue' = r.q
       /\ calls' = [calls EXCEPT
                       !.dequeued = IF r.ret THEN @ + 1 ELSE @,
                       !.op = "dequeueNext", !.arg = 0, !.ret = NoEntry,
                       !.done = r.ret]
       /\ steps' = steps + 1
       /\ UNCHANGED <<database, nextId, last, mutexVars, registry, jobVars>>

CancelEntry(entryId) ==
    \E r \in {cancel(orderBookQueue, entryId)} :
       /\ steps < MaxSteps
       /\ orderBookQueue' = r.q
       /\ calls' = [calls EXCEPT
                       !.op = "cancel", !.arg = entryId, !.ret = NoEntry,
                       !.done = r.ret]
       /\ steps' = steps + 1
       /\ UNCHANGED <<database, nextId, last, mutexVars, registry, jobVars>>

\* a new OrderBookQueue, in a process that has done nothing else
InitQueue ==
    /\ orderBookQueue = newOrderBookQueue
    /\ calls = noCalls
    /\ database = loadedData(<< >>, 1)
    /\ nextId = 1
    /\ steps = 0
    /\ last = [op |-> "init", userId |-> SYSTEM_ID, order |-> NoOrder,
               result |-> "none", fills |-> << >>, ret |-> NoOrder]
    /\ pc = [t \in Tasks |-> "idle"]
    /\ locked = FALSE
    /\ waiters = << >>
    /\ registry = newRegistry
    /\ stocks = << >>
    /\ activityData = << >>
    /\ received = [g \in JobGuilds |-> << >>]
    /\ jobLast = [runs |-> 0, cache |-> << >>]

\* the calls of a queue whose entries are never cancelled
NextFifo ==
    \/ \E entry \in QueueEntries : Enter(entry)
    \/ PeekNext
    \/ DequeueNext

SpecFifo == InitQueue /\ [][NextFifo]_vars

NextQueue ==
    \/ \E entry \in QueueEntries : Enter(entry)
    \/ PeekNext
    \/ DequeueNext
    \/ \E entryId \in EntryIds : CancelEntry(entryId)

SpecQueue == InitQueue /\ [][NextQueue]_vars

(***************************************************************************)
(* Measures used by the properties                                         *)
(***************************************************************************)
RECURSIVE sumOver(_, _)
sumOver(f, set) ==
    IF set = {} THEN 0
    ELSE LET x == CHOOSE y \in set : TRUE
         IN f[x] + sumOver(f, set \ {x})

\* the number of shares a holdings entry stands for (0 when there is none)
shares(v) == IF v.t = "num" THEN v.n ELSE 0

totalCoins(d) == sumOver([u \in UserIds |-> d.users[u].coins], UserIds)

totalHoldings(d, g) ==
    sumOver([u \in UserIds |-> shares(d.users[u].holdings[g])], UserIds)

pendingIds(d, u) ==
    {d.users[u].pendingOrders[i].id : i \in 1..Len(d.users[u].pendingOrders)}

queueIds(queue) == {queue[i].id : i \in 1..Len(queue)}

queueElems(queue) == {queue[i] : i \in 1..Len(queue)}

guildOf(d) == d.guilds[GuildId]

\* the limit queue at a price, empty when the limit map has no such key
limQueue(d, p) ==
    IF p \in DOMAIN guildOf(d).lim THEN guildOf(d).lim[p] ELSE << >>

\* no counter-party but the limit queue at the order's price is eligible
onlyLimitEligible(d, order) ==
    /\ ~(order.dir = "buy" /\ order.price >= guildOf(d).truePrice)
    /\ guildOf(d).mkt[oppDirOf(order)] = << >>

\* the step is a 'buy'/'sell' command whose processOrder call returned
orderReturned == last'.op = "order" /\ last'.result \in {"filled", "resting"}

(***************************************************************************)
(* C1: the sum of coins over all user records, the system account          *)
(* included, is the same after every command as before it.                 *)
(***************************************************************************)
C1_CoinsConserved ==
    [][totalCoins(database') = totalCoins(database)]_vars

\* a fill that moved a positive number of coins has been saved
C1_Witness ==
    /\ last.op = "order"
    /\ last.result \in {"filled", "resting"}
    /\ \E i \in 1..Len(last.fills) : last.fills[i].price * last.fills[i].volume > 0
    /\ database.users[last.userId].coins # INIT_COIN_COUNT

(***************************************************************************)
(* C2: the holdings of the security summed over all users, the system      *)
(* account included, are the same after every command as before it.        *)
(***************************************************************************)
C2_HoldingsConserved ==
    [][totalHoldings(database', GuildId) = totalHoldings(database, GuildId)]_vars

(***************************************************************************)
(* C3: no trader's coin balance and no trader's holding is below zero.     *)
(***************************************************************************)
C3_NoNegativeBalance ==
    \A u \in Traders :
        /\ database.users[u].coins >= 0
        /\ shares(database.users[u].holdings[GuildId]) >= 0

(***************************************************************************)
(* C4: a processOrder call rejected with NotEnoughCoinsError or            *)
(* OrderTooLargeError leaves the whole engine state as it was.             *)
(***************************************************************************)
C4_RejectionLeavesState ==
    [][(last'.op = "order"
        /\ last'.result \in {"NotEnoughCoinsError", "OrderTooLargeError"})
       => database' = database]_vars

(***************************************************************************)
(* C5: price-time priority.  With sell-limit orders A then B resting at    *)
(* the head of the queue at price p, a buy-limit at p takes volume from B  *)
(* only after a fill that took the whole of A; while A is in the queue B   *)
(* follows it unchanged; and when the queue is the only eligible           *)
(* counter-party, a buy of less than A.volume + B.volume leaves A short    *)
(* by the bought volume and B whole, or removes A and leaves B at the      *)
(* head short by the rest.                                                 *)
(***************************************************************************)
C5_Scenario(A, B) ==
    /\ orderReturned
    /\ last'.order.dir = "buy"
    /\ last'.order.type = "lim"
    /\ Len(limQueue(database, last'.order.price)) >= 2
    /\ A = limQueue(database, last'.order.price)[1]
    /\ B = limQueue(database, last'.order.price)[2]
    /\ A.dir = "sell"
    /\ B.dir = "sell"

C5_PriceTimePriority ==
    [][\A A, B \in queueElems(limQueue(database, last'.order.price)) :
        C5_Scenario(A, B) =>
          LET v == last'.order.volume
              after == limQueue(database', last'.order.price)
          IN /\ \A i \in 1..Len(last'.fills) :
                   last'.fills[i].id = B.id =>
                     \E j \in 1..(i - 1) :
                        /\ last'.fills[j].id = A.id
                        /\ last'.fills[j].volume = A.volume
             /\ A.id \in queueIds(after) =>
                   /\ Len(after) >= 2
                   /\ after[1].id = A.id
                   /\ after[2] = B
             /\ (onlyLimitEligible(database, last'.order) /\ v < A.volume) =>
                   /\ after[1] = [A EXCEPT !.volume = A.volume - v]
                   /\ after[2] = B
             /\ (/\ onlyLimitEligible(database, last'.order)
                 /\ v >= A.volume
                 /\ v < A.volume + B.volume) =>
                   /\ after[1] = [B EXCEPT !.volume = B.volume - (v - A.volume)]
                   /\ A.id \notin queueIds(after)]_vars

\* a buy has taken the whole of A and then part of B, now at the head
C5_Witness ==
    /\ last.op = "order"
    /\ last.order.dir = "buy"
    /\ last.result = "filled"
    /\ Len(last.fills) = 2
    /\ last.fills[1].id = SeedId(1)
    /\ last.fills[1].entire
    /\ last.fills[2].id = SeedId(2)
    /\ ~last.fills[2].entire
    /\ Len(limQueue(database, last.order.price)) >= 1
    /\ limQueue(database, last.order.price)[1].id = SeedId(2)

(***************************************************************************)
(* C6: partial fill.  A buy-limit of volume 10 at price p against a book   *)
(* whose only available counter-party is one resting sell of volume 4 at   *)
(* p: the sell leaves the book, the buyer's holdings grow by exactly 4,    *)
(* the buyer's coins fall by exactly 4 * p, the seller's holdings fall by  *)
(* exactly 4, and the buy order rests with volume 6.                       *)
(***************************************************************************)
C6_Scenario ==
    /\ last'.op = "order"
    /\ last'.order.dir = "buy"
    /\ last'.order.type = "lim"
    /\ last'.order.volume = 10
    /\ onlyLimitEligible(database, last'.order)
    /\ Len(limQueue(database, last'.order.price)) = 1
    /\ limQueue(database, last'.order.price)[1].dir = "sell"
    /\ limQueue(database, last'.order.price)[1].volume = 4
    /\ limQueue(database, last'.order.price)[1].userId # last'.userId
    /\ admission(database.users, last'.order) = "ok"

C6_PartialFill ==
    [][C6_Scenario =>
        LET p == last'.order.price
            buyer == last'.userId
            seller == limQueue(database, p)[1].userId
        IN /\ last'.result = "resting"
           /\ limQueue(database', p) = <<last'.ret>>
           /\ last'.ret.volume = 6
           /\ database'.users[buyer].coins = database.users[buyer].coins - 4 * p
           /\ shares(database'.users[buyer].holdings[GuildId])
                 = shares(database.users[buyer].holdings[GuildId]) + 4
           /\ shares(database'.users[seller].holdings[GuildId])
                 = shares(database.users[seller].holdings[GuildId]) - 4]_vars

(***************************************************************************)
(* C7: scenario.  One sell-limit of 100 shares rests at price 3 and no     *)
(* other counter-party is eligible; a user with 1000 coins and no holdings *)
(* submits buy-limit 50 at 3.  processOrder returns null, the user has 850 *)
(* coins and 50 shares, and the sell order is still at the head of its     *)
(* queue, with volume 50, price 3 and its original owner.                  *)
(***************************************************************************)
C7_Scenario ==
    /\ last'.op = "order"
    /\ last'.order.dir = "buy"
    /\ last'.order.type = "lim"
    /\ last'.order.volume = 50
    /\ last'.order.price = 3
    /\ onlyLimitEligible(database, last'.order)
    /\ Len(limQueue(database, 3)) = 1
    /\ limQueue(database, 3)[1].dir = "sell"
    /\ limQueue(database, 3)[1].volume = 100
    /\ limQueue(database, 3)[1].userId # last'.userId
    /\ database.users[last'.userId].coins = 1000
    /\ shares(database.users[last'.userId].holdings[GuildId]) = 0
    /\ database.users[last'.userId].pendingOrders = << >>
    /\ database.trading

C7_ScenarioOutcome ==
    [][C7_Scenario =>
        /\ last'.result = "filled"
        /\ database'.users[last'.userId].coins = 850
        /\ database'.users[last'.userId].holdings[GuildId] = Num(50)
        /\ limQueue(database', 3) =
              <<[limQueue(database, 3)[1] EXCEPT !.volume = 50]>>]_vars

\* the scenario has run: the seeded sell of 100 is half filled
C7_Witness ==
    /\ last.op = "order"
    /\ last.order.volume = 50
    /\ last.order.price = 3
    /\ last.result = "filled"
    /\ Len(last.fills) = 1
    /\ last.fills[1].src = "lim"
    /\ database.users[last.userId].coins = 850
    /\ Len(limQueue(database, 3)) = 1
    /\ limQueue(database, 3)[1].id = SeedId(1)
    /\ limQueue(database, 3)[1].volume = 50

(***************************************************************************)
(* C8: cancelling an order id that is not in the caller's pending orders   *)
(* fails with InvalidOrderIDError and changes nothing, in the cancel       *)
(* command and in cancelOrder itself.                                      *)
(***************************************************************************)
\* the orders cancelOrder can be handed: any order of the database, under
\* any owner
knownOrders(d) ==
    UNION {queueElems(d.users[u].pendingOrders) : u \in UserIds}

C8_CancelMiss ==
    [][/\ (last'.op = "cancel"
           /\ last'.order.id \notin pendingIds(database, last'.userId))
          => (last'.result = "InvalidOrderIDError" /\ database' = database)
       /\ \A o \in knownOrders(database), u \in UserIds :
            o.id \notin pendingIds(database, u) =>
              cancelOrder(database, [o EXCEPT !.userId = u])
                = [result |-> "InvalidOrderIDError", data |-> database]]_vars

\* a cancel command has missed while another user had a resting order
C8_Witness ==
    /\ last.op = "cancel"
    /\ last.result = "InvalidOrderIDError"
    /\ \E u \in Traders :
          /\ u # last.userId
          /\ last.order.id \in pendingIds(database, u)

(***************************************************************************)
(* C9: while trading is halted every processOrder call of a trader fails   *)
(* with TradingStoppedError and leaves the engine state unchanged.         *)
(***************************************************************************)
C9_HaltRejects ==
    [][(~database.trading /\ last'.op = "order" /\ last'.userId # SYSTEM_ID)
       => (last'.result = "TradingStoppedError" /\ database' = database)]_vars

\* an order has been rejected because trading is halted
C9_Witness ==
    /\ last.op = "order"
    /\ last.result = "TradingStoppedError"
    /\ ~database.trading

(***************************************************************************)
(* C10: while trading is halted, a processOrder call for an order of the   *)
(* system account is not rejected with TradingStoppedError.                *)
(***************************************************************************)
C10_SystemBypassesHalt ==
    (last.op = "system" /\ ~database.trading)
        => last.result # "TradingStoppedError"

(***************************************************************************)
(* C11: an admitted limit or market order for which no counter-order is    *)
(* eligible is returned with a non-null id and unchanged volume, and is    *)
(* the new tail of its book queue (limit: the queue at its price, created  *)
(* if absent; market: the queue of its direction) and of its owner's       *)
(* pending orders -- also when it is the first limit order at its price.   *)
(***************************************************************************)
\* the order of the step passes the halt, volume and admission checks
orderAdmitted ==
    /\ last'.op = "order"
    /\ ~tradingStopped(database, last'.order)
    /\ last'.order.volume > 0
    /\ admission(initHoldings(database.users, last'.order), last'.order) = "ok"

\* no counter-order is eligible for the order, at any price it visits
noCounterOrder(d, order) ==
    IF order.type = "lim" THEN selectOpp(guildOf(d), order) = "none"
    ELSE \A p \in DOMAIN guildOf(d).lim :
            selectOpp(guildOf(d), [order EXCEPT !.price = p]) = "none"

\* the book queue an order rests in
bookQueue(d, order) ==
    IF order.type = "lim" THEN limQueue(d, order.price)
    ELSE guildOf(d).mkt[order.dir]

C11_UnmatchedOrderRests ==
    [][(orderAdmitted /\ noCounterOrder(database, last'.order))
       => /\ last'.result = "resting"
          /\ last'.ret.id # 0
          /\ last'.ret.volume = last'.order.volume
          /\ bookQueue(database', last'.ret)
                = Append(bookQueue(database, last'.ret), last'.ret)
          /\ database'.users[last'.userId].pendingOrders
                = Append(database.users[last'.userId].pendingOrders,
                         last'.ret)]_vars

(***************************************************************************)
(* C12: in every saved database the order ids in the users' pending        *)
(* orders are the order ids in the guild's limit and market queues.        *)
(***************************************************************************)
allPendingIds(d) == UNION {pendingIds(d, u) : u \in UserIds}

allQueueIds(d) ==
    UNION ({queueIds(guildOf(d).lim[p]) : p \in DOMAIN guildOf(d).lim}
           \cup {queueIds(guildOf(d).mkt[dir]) : dir \in {"buy", "sell"}})

C12_PendingMatchesBook == allPendingIds(database) = allQueueIds(database)

(***************************************************************************)
(* C13: a trader's buy-limit order is rejected with NotEnoughCoinsError    *)
(* whenever the trader's coins less the cost (price x volume) of the       *)
(* buy-limit orders in the trader's pending orders on the same guild are   *)
(* fewer than price x volume of the new order.                             *)
(***************************************************************************)
RECURSIVE reservedCoins(_, _, _)
\* the cost of the buy-limit orders on the guild from index i on
reservedCoins(pendingOrders, guildId, i) ==
    IF i > Len(pendingOrders) THEN 0
    ELSE (IF /\ pendingOrders[i].guildId = guildId
             /\ pendingOrders[i].dir = "buy"
             /\ pendingOrders[i].type = "lim"
          THEN pendingOrders[i].price * pendingOrders[i].volume ELSE 0)
         + reservedCoins(pendingOrders, guildId, i + 1)

C13_BuyLimitReserves ==
    [][(/\ last'.op = "order"
        /\ last'.userId # SYSTEM_ID
        /\ ~tradingStopped(database, last'.order)
        /\ last'.order.volume > 0
        /\ last'.order.dir = "buy"
        /\ last'.order.type = "lim"
        /\ database.users[last'.userId].coins
             - reservedCoins(database.users[last'.userId].pendingOrders,
                             last'.order.guildId, 1)
             < last'.order.price * last'.order.volume)
       => last'.result = "NotEnoughCoinsError"]_vars

(***************************************************************************)
(* C14: a trader's sell order, limit or market, is rejected with           *)
(* OrderTooLargeError exactly when the trader's holdings of the guild less *)
(* the volume of the sell orders in the trader's pending orders on that    *)
(* guild are fewer than the volume of the new order.                       *)
(***************************************************************************)
RECURSIVE reservedShares(_, _, _)
\* the volume of the sell orders on the guild from index i on
reservedShares(pendingOrders, guildId, i) ==
    IF i > Len(pendingOrders) THEN 0
    ELSE (IF /\ pendingOrders[i].guildId = guildId
             /\ pendingOrders[i].dir = "sell"
          THEN pendingOrders[i].volume ELSE 0)
         + reservedShares(pendingOrders, guildId, i + 1)

\* a trader's sell order has reached the admission check
sellChecked ==
    /\ last'.op = "order"
    /\ last'.userId # SYSTEM_ID
    /\ ~tradingStopped(database, last'.order)
    /\ last'.order.volume > 0
    /\ last'.order.dir = "sell"

C14_SellRejectedExactly ==
    [][sellChecked
       => (last'.result = "OrderTooLargeError"
           <=> shares(database.users[last'.userId]
                          .holdings[last'.order.guildId])
                 - reservedShares(database.users[last'.userId].pendingOrders,
                                  last'.order.guildId, 1)
                 < last'.order.volume)]_vars

\* a sell order has been rejected although the seller holds its volume,
\* because a resting sell order reserves part of the holdings
C14_Witness ==
    /\ last.op = "order"
    /\ last.order.dir = "sell"
    /\ last.result = "OrderTooLargeError"
    /\ shares(database.users[last.userId].holdings[GuildId])
          >= last.order.volume
    /\ reservedShares(database.users[last.userId].pendingOrders,
                      GuildId, 1) > 0

(***************************************************************************)
(* C15: a market order visits the limit price levels from the most to the  *)
(* least favourable: the fills of a buy-market order are at ascending      *)
(* prices, the fills of a sell-market order at descending prices.          *)
(***************************************************************************)
C15_SweepOrder ==
    (last.op = "order" /\ last.order.type = "mkt"
        /\ last.result \in {"filled", "resting"})
    => \A i, j \in 1..Len(last.fills) :
          i < j => IF last.order.dir = "buy"
                   THEN last.fills[i].price <= last.fills[j].price
                   ELSE last.fills[i].price >= last.fills[j].price

(***************************************************************************)
(* C16: every processOrder call returns or throws: no command is left      *)
(* with a matching loop that never ends.                                   *)
(***************************************************************************)
C16_ProcessOrderTerminates == last.op = "order" => last.result # "Hang"

(***************************************************************************)
(* C17: at most one task is inside the region of the global mutex at any   *)
(* time: the body of the periodic job and the body of a command handler    *)
(* (readData through writeData) never run concurrently.                    *)
(***************************************************************************)
\* the task's runExclusive callback has started and has not settled
inRegion(t) == pc[t] \in {"inside", "reply"}

C17_MutualExclusion ==
    \A t1, t2 \in Tasks : (inRegion(t1) /\ inRegion(t2)) => t1 = t2

\* a tick of the job and another command have arrived while a handler
\* awaits its reply inside the region
C17_Witness ==
    \E c1, c2 \in Handlers :
        /\ c1 # c2
        /\ pc[c1] = "reply"
        /\ pc["job"] = "waiting"
        /\ pc[c2] = "waiting"

(***************************************************************************)
(* C18: after every setticker command, accepted or rejected, data.tickers  *)
(* maps no two tickers to the same guild, every entry of data.tickers      *)
(* names a guild whose ticker field is that ticker, and the ticker a guild *)
(* had before an accepted command is no longer a key of data.tickers.      *)
(***************************************************************************)
tickersConsistent(r) ==
    /\ \A t1, t2 \in DOMAIN r.tickers :
          r.tickers[t1] = r.tickers[t2] => t1 = t2
    /\ \A t \in DOMAIN r.tickers :
          /\ r.tickers[t] \in DOMAIN r.guilds
          /\ r.guilds[r.tickers[t]] = t

C18_TickerRegistry ==
    [][/\ tickersConsistent(registry')
       /\ (registry'.tickers # registry.tickers
             => registry.guilds[registry'.last.guildId]
                   \notin DOMAIN registry'.tickers)]_vars

\* a guild has exchanged one registered ticker for another while a second
\* guild has a registered ticker
C18_Witness ==
    /\ registry.last.reply = "changed"
    /\ registry.last.previous # << >>
    /\ Len(registry.last.previous) <= MAX_TICKER_LENGTH
    /\ registry.last.previous \notin DOMAIN registry.tickers
    /\ \E t \in DOMAIN registry.tickers :
          registry.tickers[t] # registry.last.guildId

(***************************************************************************)
(* C19: a cancel command for an order of the caller's pending orders       *)
(* removes that one order from the pending orders and from its book queue; *)
(* every other pending order of the caller and every other entry of the    *)
(* queue stays, in the same relative order.                                *)
(***************************************************************************)
\* the sequence without its entries of the given id
without(orders, id) == SelectSeq(orders, LAMBDA o : o.id # id)

\* the caller's pending order the cancel command of the step names
cancelled == database.users[last'.userId].pendingOrders[
                 findIndex(database.users[last'.userId].pendingOrders,
                           last'.order.id) + 1]

C19_CancelRemovesOne ==
    [][(/\ last'.op = "cancel"
        /\ last'.order.id \in pendingIds(database, last'.userId))
       => /\ last'.result = "canceled"
          /\ database'.users[last'.userId].pendingOrders
                = without(database.users[last'.userId].pendingOrders,
                          last'.order.id)
          /\ bookQueue(database', cancelled)
                = without(bookQueue(database, cancelled),
                          last'.order.id)]_vars

(***************************************************************************)
(* C20: the resting orders a limit order's fills consume whole are the     *)
(* only orders that leave the book queues and the only orders that leave   *)
(* the users' pending orders.                                              *)
(***************************************************************************)
\* the ids of the resting orders the fills of the step consumed whole
consumed ==
    {last'.fills[i].id :
        i \in {j \in 1..Len(last'.fills) :
                  last'.fills[j].entire /\ last'.fills[j].src # "ipo"}}

C20_FullFillRemovesOne ==
    [][(orderReturned /\ last'.order.type = "lim")
       => /\ allQueueIds(database) \ allQueueIds(database') = consumed
          /\ allPendingIds(database) \ allPendingIds(database') = consumed]_vars

(***************************************************************************)
(* C21: when the one counter-order an incoming order (buy or sell) trades  *)
(* against has a larger volume w than the order's volume v, the order is   *)
(* reported filled and the counter-order stays the head of its queue with  *)
(* volume w - v, the rest of the queue unchanged.                          *)
(***************************************************************************)
\* the queue the counter-order of a fill was resting in
sourceQueue(d, order, fill) ==
    IF fill.src = "mkt" THEN guildOf(d).mkt[oppDirOf(order)]
    ELSE limQueue(d, fill.price)

\* the step is an order whose only fill took part of a queued counter-order
partlyFillsHead ==
    /\ orderReturned
    /\ Len(last'.fills) = 1
    /\ last'.fills[1].src # "ipo"
    /\ ~last'.fills[1].entire

C21_PartialFillShrinksHead ==
    [][partlyFillsHead
       => /\ last'.result = "filled"
          /\ sourceQueue(database', last'.order, last'.fills[1])
               = [sourceQueue(database, last'.order, last'.fills[1])
                    EXCEPT ![1].volume = @ - last'.order.volume]]_vars

(***************************************************************************)
(* C22: the remaining volume of an incoming order never grows during       *)
(* processOrder: an order that comes to rest has the volume submitted less *)
(* the volume its fills traded, for buy and for sell orders alike.         *)
(***************************************************************************)
RECURSIVE filledVolume(_, _)
\* the volume traded by the fills from index i on
filledVolume(fills, i) ==
    IF i > Len(fills) THEN 0
    ELSE fills[i].volume + filledVolume(fills, i + 1)

C22_RemainingVolumeShrinks ==
    (last.op = "order" /\ last.result = "resting")
    => /\ last.ret.volume = last.order.volume - filledVolume(last.fills, 1)
       /\ last.ret.volume <= last.order.volume

(***************************************************************************)
(* C23: a market order that comes to rest leaves every limit price queue   *)
(* with the resting orders it had, apart from the orders the market order  *)
(* traded against, and adds no order to a limit queue.                     *)
(***************************************************************************)
\* the ids of the counter-orders the fills of the step traded against
traded == {last'.fills[i].id : i \in 1..Len(last'.fills)}

C23_MarketOrderFrame ==
    [][(orderReturned /\ last'.order.type = "mkt"
           /\ last'.result = "resting")
       => \A p \in DOMAIN guildOf(database).lim :
             /\ queueIds(limQueue(database, p)) \ traded
                   \subseteq queueIds(limQueue(database', p))
             /\ queueIds(limQueue(database', p))
                   \subseteq queueIds(limQueue(database, p))]_vars

(***************************************************************************)
(* C24: a buy-limit order trades with the IPO order while its price is at  *)
(* or above the true price; otherwise with the oldest resting sell-market  *)
(* order; otherwise with the oldest sell-limit order at exactly its price. *)
(* A later source is used only when every earlier one is unavailable, and  *)
(* nothing is traded only when all three are.                              *)
(***************************************************************************)
\* the step is a buy-limit order that reached the matching loop
buyLimitMatched ==
    /\ orderReturned
    /\ last'.order.type = "lim"
    /\ last'.order.dir = "buy"
    /\ last'.order.volume > 0

ipoAvailable(d, order) == order.price >= guildOf(d).truePrice

sellMarketAvailable(d) == guildOf(d).mkt["sell"] # << >>

sellLimitAvailable(d, order) ==
    /\ limQueue(d, order.price) # << >>
    /\ limQueue(d, order.price)[1].dir = "sell"

C25_LimitTradesAtItsPrice ==
    [][(orderReturned /\ last'.order.type = "lim")
       => /\ \A i \in 1..Len(last'.fills) :
               last'.fills[i].src = "lim"
               => \E j \in 1..Len(limQueue(database, last'.order.price)) :
                     /\ limQueue(database, last'.order.price)[j].id
                           = last'.fills[i].id
                     /\ limQueue(database, last'.order.price)[j].price
                           = last'.order.price
                     /\ limQueue(database, last'.order.price)[j].type = "lim"
          /\ \A q \in DOMAIN guildOf(database).lim \ {last'.order.price} :
               limQueue(database', q) = limQueue(database, q)]_vars

\* a buy-limit order at 3 has traded at price 3 while a sell-limit order at
\* the lower price 0 stays in the book
C25_Witness ==
    /\ last.op = "order"
    /\ last.order.type = "lim"
    /\ last.order.dir = "buy"
    /\ last.order.price = 3
    /\ last.fills # << >>
    /\ last.fills[1].src = "lim"
    /\ limQueue(database, 0) # << >>
    /\ limQueue(database, 0)[1].dir = "sell"

(***************************************************************************)
(* C26: a saved processOrder call appends to the guild's actual price      *)
(* history one entry per fill, in the order of the fills, each the unit    *)
(* price at which the coins of that fill were transferred; a call without  *)
(* a fill, a rejected call and a cancelOrder call append nothing.          *)
(***************************************************************************)
\* the unit prices of the fills, oldest first
fillPrices(fills) == [i \in 1..Len(fills) |-> fills[i].price]

RECURSIVE coinsMoved(_, _)
\* the coins the fills from index i on transferred
coinsMoved(fills, i) ==
    IF i > Len(fills) THEN 0
    ELSE fills[i].price * fills[i].volume + coinsMoved(fills, i + 1)

C26_OneHistoryEntryPerFill ==
    [][(last'.op \in {"order", "cancel"} /\ saved(last'.result))
       => /\ guildOf(database').actualPriceHist
               = guildOf(database).actualPriceHist \o fillPrices(last'.fills)
          /\ (\A i \in 1..Len(last'.fills) :
                 last'.fills[i].userId # last'.userId)
             => database'.users[last'.userId].coins
                  = database.users[last'.userId].coins
                    - directionOf(last'.order) * coinsMoved(last'.fills, 1)]_vars

\* an order has been filled by two counter-orders at a price that is not
\* the true price
C26_Witness ==
    /\ last.op = "order"
    /\ last.result \in {"filled", "resting"}
    /\ Len(last.fills) = 2
    /\ last.fills[1].price # guildOf(database).truePrice
    /\ Len(guildOf(database).actualPriceHist) >= 3

(***************************************************************************)
(* C27: over fills and runs of the periodic job, the actual price history  *)
(* of a listed guild only grows by appending, it is as long as the list of *)
(* its timestamps, and a run of the job appends exactly one entry for      *)
(* every guild listed before the run.                                      *)
(***************************************************************************)
\* the history h is the beginning of the history k
extends(h, k) == Len(k) >= Len(h) /\ SubSeq(k, 1, Len(h)) = h

historyGrows ==
    \A g \in DOMAIN stocks :
        /\ g \in DOMAIN stocks'
        /\ extends(stocks[g].actualPriceHist, stocks'[g].actualPriceHist)

timesMatch(listed) ==
    \A g \in DOMAIN listed :
        Len(listed[g].actualPriceHist) = Len(listed[g].actualPriceHistTimes)

jobRan == jobLast'.runs = jobLast.runs + 1

C27_DatabaseTimes ==
    Len(guildOf(database).actualPriceHist)
      = Len(guildOf(database).actualPriceHistTimes)

(***************************************************************************)
(* C28: after any sequence of processOrder and cancelOrder calls, accepted *)
(* or rejected, no holdings map of a user has an entry whose value is      *)
(* exactly 0.                                                              *)
(***************************************************************************)
C28_NoZeroHolding ==
    \A u \in UserIds, g \in Guilds : database.users[u].holdings[g] # Num(0)

(***************************************************************************)
(* C29: after any sequence of commands, every resting order has the same   *)
(* id, volume and price in the pending orders of its owner as in its queue *)
(* of the book, also after a later command has filled it in part.          *)
(***************************************************************************)
\* the orders in the queues of the book
bookOrders(d) ==
    LET guild == guildOf(d)
    IN queueElems(guild.mkt.buy) \cup queueElems(guild.mkt.sell)
         \cup UNION {queueElems(guild.lim[p]) : p \in DOMAIN guild.lim}

C29_PendingEqualsQueueEntry ==
    \A o \in bookOrders(database) :
        \A i \in 1..Len(database.users[o.userId].pendingOrders) :
            database.users[o.userId].pendingOrders[i].id = o.id
                => database.users[o.userId].pendingOrders[i] = o

(***************************************************************************)
(* C30: a run of the periodic job computes the sample of every guild it    *)
(* visits from the number of messages received for the guild since the     *)
(* last run and the number of their distinct authors, or from 0 and 1      *)
(* when no message was received; after the run the counters are empty.     *)
(***************************************************************************)
\* the counts the messages received for a guild amount to
messageCount(g) == Len(received[g])

distinctAuthorCount(g) ==
    IF received[g] = << >> THEN 1
    ELSE Cardinality({received[g][i] : i \in 1..Len(received[g])})

C30_JobUsesReceivedCounts ==
    [][jobRan =>
         /\ \A g \in DOMAIN jobLast'.cache :
               stocks'[g].trueDataPoints[1]
                 = trueStockPriceFormula(jobLast'.cache[g], messageCount(g),
                                         distinctAuthorCount(g))
         /\ activityData' = << >>]_vars

\* the counters are empty after a run, and a run without messages uses
\* the counts 0 and 1
C30_QuietRun ==
    [][jobRan =>
         /\ \A g \in DOMAIN jobLast'.cache :
               received[g] = << >> =>
                  stocks'[g].trueDataPoints[1]
                    = trueStockPriceFormula(jobLast'.cache[g], 0, 1)
         /\ activityData' = << >>]_vars

(***************************************************************************)
(* C31: a command whose operation throws an error that is not one of the   *)
(* four typed errors is not saved: the database the next command loads is  *)
(* the database the faulting command loaded, and what the command changed  *)
(* in memory is lost.                                                      *)
(***************************************************************************)
\* the command threw an error the handler rethrows
untypedError(result) ==
    result \notin {"filled", "resting", "canceled", "done", "denied", "Hang"}
                    \cup TypedErrors

\* what the order of the last command changes in memory
inMemory == processOrder(readData(database), last.order, nextId)

C31_UntypedErrorDiscards ==
    [][(last'.op \in {"order", "cancel"} /\ untypedError(last'.result))
          => /\ database' = database
             /\ nextId' = nextId]_vars

\* an order has moved coins and shares in memory and then thrown a
\* TypeError; the database is as the order found it
C31_Witness ==
    /\ last.op = "order"
    /\ last.result = "TypeError"
    /\ inMemory.result = "TypeError"
    /\ inMemory.data.users[last.userId].coins
          # database.users[last.userId].coins

(***************************************************************************)
(* C32: a handler that awaits interaction.reply does not hold the global   *)
(* mutex: while handlers await their replies the mutex is free, or held by *)
(* a task that is running inside the exclusive region.                     *)
(***************************************************************************)
awaitingReply(c) == pc[c] = "reply"

C32_ReplyOutsideMutex ==
    (\E c \in Handlers : awaitingReply(c))
        => (locked => \E t \in Tasks : pc[t] = "inside")

(***************************************************************************)
(* C33: data.trading changes only by a stoptrading or conttrading command  *)
(* of a user listed in data.admins, which sets it to the value of the      *)
(* command; the same commands of another user and every other command      *)
(* leave it unchanged.                                                     *)
(***************************************************************************)
byAdmin == last'.userId \in database.admins

C33_TradingFlagByAdmins ==
    [][/\ database'.admins = database.admins
       /\ database'.trading =
            IF last'.op = "stoptrading" /\ byAdmin THEN FALSE
            ELSE IF last'.op = "conttrading" /\ byAdmin THEN TRUE
            ELSE database.trading]_vars

\* trading is stopped, and a user who is no administrator has asked to
\* resume it
C33_Witness ==
    /\ ~database.trading
    /\ last.op = "conttrading"
    /\ last.userId \notin database.admins

(***************************************************************************)
(* C34: a setticker command whose ticker is registered to a guild already, *)
(* is longer than 8 characters, or has a character that is neither a       *)
(* letter nor a digit changes neither data.tickers nor the ticker field of *)
(* any guild, and is answered with a rejection.                            *)
(***************************************************************************)
Letters == {"a", "b", "A", "B"}
Digits == {"1", "2", "3"}

\* the ticker of the option is one the claim says is rejected
rejectable(r, option) ==
    \/ \E t \in DOMAIN r.tickers : t = toUpperCase(option)
    \/ Len(option) > 8
    \/ \E i \in 1..Len(option) : option[i] \notin Letters \cup Digits

C34_SettickerRejections ==
    [][(registry'.last # registry.last
          /\ rejectable(registry, registry'.last.option))
         => /\ registry'.tickers = registry.tickers
            /\ registry'.guilds = registry.guilds
            /\ registry'.last.reply # "changed"]_vars

\* a guild with the permission has asked for a ticker of nine letters,
\* while another ticker is registered, and was told it is too long
C34_Witness ==
    /\ registry.last.reply = "too long"
    /\ Len(registry.last.option) = 9
    /\ DOMAIN registry.tickers # {}

(***************************************************************************)
(* C35: the trueDataPoints of a guild never hold more than MAX_DATA_POINTS *)
(* samples; a run of the job on a guild whose window is full puts the new  *)
(* sample in front and drops the oldest sample, the last one, only.        *)
(***************************************************************************)
windowFull(g) ==
    /\ g \in DOMAIN stocks
    /\ Len(stocks[g].trueDataPoints) = MAX_DATA_POINTS

C35_WindowBounded ==
    [][\A g \in DOMAIN stocks' :
         /\ Len(stocks'[g].trueDataPoints) <= MAX_DATA_POINTS
         /\ (jobRan /\ g \in DOMAIN jobLast'.cache /\ windowFull(g))
               => /\ stocks'[g].trueDataPoints
                       = <<trueStockPriceFormula(jobLast'.cache[g],
                              numMessages(activityData, g),
                              numAuthors(activityData, g))>>
                         \o SubSeq(stocks[g].trueDataPoints, 1,
                                   MAX_DATA_POINTS - 1)]_vars

\* the job has run on the full window of g1: the sample that was the
\* second oldest is the oldest now
C35_Witness ==
    /\ jobLast.runs >= 1
    /\ "g1" \in DOMAIN jobLast.cache
    /\ Len(stocks["g1"].trueDataPoints) = MAX_DATA_POINTS
    /\ stocks["g1"].trueDataPoints[MAX_DATA_POINTS]
         = trueStockPriceFormula(3, 0, 1)

(***************************************************************************)
(* C36: an order that is filled by the IPO order only makes the remaining  *)
(* volume of the IPO order smaller by exactly the number of shares the     *)
(* buyer obtains, and the IPO order never has sold more than               *)
(* IPO_NUM_SHARES shares: its remaining volume is never negative.          *)
(***************************************************************************)
ipoVolume(d) == guildOf(d).ipo.volume

\* all fills of the last order came from the IPO order
ipoOnly(fills) ==
    /\ Len(fills) > 0
    /\ \A i \in 1..Len(fills) : fills[i].src = "ipo"

sharesOf(d, u) == d.users[u].holdings[GuildId]

C36_IpoVolumeMatchesSales ==
    [][/\ ipoVolume(database') >= 0
       /\ (/\ last'.op = "order"
           /\ saved(last'.result)
           /\ ipoOnly(last'.fills)
           /\ sharesOf(database, last'.userId).t = "num")
          => sharesOf(database', last'.userId)
               = Num(sharesOf(database, last'.userId).n
                       + ipoVolume(database) - ipoVolume(database'))]_vars

(***************************************************************************)
(* C37: every queue of guild.lim holds orders of one direction only, and   *)
(* every order in the queue at the key p is a limit order of price p.      *)
(***************************************************************************)
oneDirection(queue) ==
    \A i, j \in 1..Len(queue) : queue[i].dir = queue[j].dir

C37_LimitQueuesUniform ==
    \A p \in DOMAIN guildOf(database).lim :
        /\ oneDirection(guildOf(database).lim[p])
        /\ \A i \in 1..Len(guildOf(database).lim[p]) :
              /\ guildOf(database).lim[p][i].price = p
              /\ guildOf(database).lim[p][i].type = "lim"

\* two buy-limit orders that commands have placed rest in the queue at 3,
\* where sell-limit orders rested before, and a second queue exists
C37_Witness ==
    /\ 3 \in DOMAIN guildOf(database).lim
    /\ Len(guildOf(database).lim[3]) >= 2
    /\ \A i \in 1..Len(guildOf(database).lim[3]) :
          /\ guildOf(database).lim[3][i].dir = "buy"
          /\ guildOf(database).lim[3][i].id \in 1..MaxSteps
    /\ 0 \in DOMAIN guildOf(database).lim

(***************************************************************************)
(* C38: after any sequence of enter and dequeueNext calls, peekNext        *)
(* returns the entry that was entered earliest among those not yet         *)
(* dequeued, and null exactly when there is none.                          *)
(***************************************************************************)
\* the k-th dequeueNext that returns true takes the k-th entry entered
earliestWaiting ==
    IF calls.dequeued < Len(calls.entered)
    THEN calls.entered[calls.dequeued + 1].entry
    ELSE NoEntry

C38_QueueIsFifo ==
    /\ peekNext(orderBookQueue) = earliestWaiting
    /\ calls.op = "peekNext" => calls.ret = earliestWaiting
    /\ (calls.op = "dequeueNext" /\ ~calls.done)
          => calls.dequeued = Len(calls.entered)

\* two entries that differ were entered and the older one has been
\* dequeued: peekNext returns the newer one
C38_Witness ==
    /\ calls.op = "dequeueNext"
    /\ calls.dequeued = 1
    /\ Len(calls.entered) = 2
    /\ calls.entered[1].entry # calls.entered[2].entry
    /\ peekNext(orderBookQueue) = calls.entered[2].entry

(***************************************************************************)
(* C39: after any sequence of enter, dequeueNext and cancel calls, the ids *)
(* in the queue array are exactly the keys of the orders map, none twice;  *)
(* cancel(id) removes the entry id only, and returns false and changes     *)
(* nothing when the queue has no entry id.                                 *)
(***************************************************************************)
idsOf(queue) == {queue[i] : i \in 1..Len(queue)}

C39_QueueMatchesOrders ==
    /\ idsOf(orderBookQueue.queue) = DOMAIN orderBookQueue.orders
    /\ Cardinality(idsOf(orderBookQueue.queue)) = Len(orderBookQueue.queue)

\* what holds of cancel: a cancel of an id the queue does not have returns
\* false and changes nothing, and a cancel that returns true removes the id
\* from the map and from the array
C39_CancelAbsent ==
    [][calls'.op = "cancel" /\ steps' # steps
         => IF calls'.arg \in idsOf(orderBookQueue.queue)
            THEN /\ calls'.done
                 /\ calls'.arg \notin DOMAIN orderBookQueue'.orders
                 /\ calls'.arg \notin idsOf(orderBookQueue'.queue)
            ELSE ~calls'.done /\ orderBookQueue' = orderBookQueue]_vars

====
